---- MODULE Spec2Model ----
(***************************************************************************)
(* Model of code/code_AVA/eval/get_ava_performance_bettergraphs.py:        *)
(* the annotation parsers (read_csv, read_exclusions, read_labelmap),      *)
(* the confusion-matrix builder, and run_evaluation: its registration      *)
(* loops, its results file and its loop over the confusion matrices.       *)
(*                                                                         *)
(* Text is modelled by what the code does with it:                         *)
(*   - a timestamp / key-frame field is the sequence of its decimal digits *)
(*     (<<0,0,0,5>> is "0005", <<5>> is "5");                              *)
(*   - a decimal field (coordinate, score) is the integer number of        *)
(*     1/10000 units it denotes (1000 is "0.1", 1004 is "0.1004");         *)
(*   - a CSV row is the sequence of its fields, a file the sequence of its *)
(*     rows.                                                               *)
(***************************************************************************)
EXTENDS Integers, Sequences, FiniteSets, TLC

VARIABLES
    optimize,         \* TRUE when the interpreter runs with -O (asserts stripped)
    pc,               \* position of the function under execution
    err,              \* "none" or the name of the exception that propagated
    csv_file,         \* read_csv: the rows of its file argument
    class_whitelist,  \* read_csv: its class_whitelist argument
    row_idx,          \* index of the next row the reader will yield
    boxes,            \* read_csv: image key -> list of [y1, x1, y2, x2]
    labels,           \* read_csv: image key -> list of class ids
    scores,           \* read_csv: image key -> list of scores
    exclusions_file,  \* read_exclusions: its argument (None or the rows of a file)
    excluded,         \* read_exclusions: the set of excluded image keys
    labelmap_file,    \* read_labelmap: the lines of its file argument
    name,             \* read_labelmap: the name remembered from the last name line
    labelmap,         \* read_labelmap: list of [id, name] entries
    class_ids,        \* read_labelmap: set of class ids
    groundtruth,      \* confusion_matrix: the rows of the ground-truth file
    detections,       \* confusion_matrix: the rows of the detections file
    gnd_dict,         \* confusion_matrix: match key -> list of ground-truth class ids
    det_dict,         \* confusion_matrix: match key -> list of detected class ids
    todo,             \* confusion_matrix: keys of gnd_dict the final loop has yet to visit
    cm,               \* confusion_matrix: the 10 x 10 matrix
    all_detections,   \* run_evaluation: the detection files of the experiment
    all_gndtruths,    \* run_evaluation: one ground-truth file per detection file
    variant,          \* run_evaluation: index of the experiment variant in progress
    pending,          \* run_evaluation: image keys the current loop has yet to visit
    pascal_evaluator, \* the evaluator of the variant: the registrations it received
    evaluations,      \* the evaluators on which evaluate() was called, in order
    finalmAPs,        \* run_evaluation: the mean average precision of each variant
    results_file,     \* results.txt: whether the run opened it, and its lines
    subplot,          \* run_evaluation: the index i of the loop over the subplots
    matrices          \* the matrices confusion_matrix returned to the run, in order

csvVars == <<csv_file, class_whitelist, boxes, labels, scores>>
exclVars == <<exclusions_file, excluded>>
lmVars == <<labelmap_file, name, labelmap, class_ids>>
cmVars == <<groundtruth, detections, gnd_dict, det_dict, todo, cm>>
plotVars == <<results_file, subplot, matrices>>
runVars == <<all_detections, all_gndtruths, variant, pending, pascal_evaluator,
             evaluations, finalmAPs, plotVars>>

vars == <<optimize, pc, err, row_idx, csvVars, exclVars, lmVars, cmVars, runVars>>

-----------------------------------------------------------------------------
(* Bounds of the model.                                                    *)

\* rows of the file of a read_csv call, of an exclusions file, lines of a label map
MaxCsvRows == 2
MaxExclRows == 3
MaxLines == 3
\* rows of the two files of a confusion_matrix call
MaxGtRows == 2
MaxDetRows == 2
\* rows of a ground-truth or detection file of a run_evaluation run
MaxRunRows == 2
\* detection files of an experiment with many variants
MaxSources == 5

-----------------------------------------------------------------------------
(* Text helpers.                                                           *)

RECURSIVE SeqsUpTo(_, _)
SeqsUpTo(S, n) ==
    IF n = 0 THEN {<<>>}
    ELSE LET shorter == SeqsUpTo(S, n - 1)
         IN  shorter \cup {Append(s, x) : s \in {t \in shorter : Len(t) = n - 1}, x \in S}

\* int(s) of a string of decimal digits
RECURSIVE ParseInt(_)
ParseInt(s) ==
    IF Len(s) = 0 THEN 0
    ELSE 10 * ParseInt(SubSeq(s, 1, Len(s) - 1)) + s[Len(s)]

\* the decimal digits of n >= 0, without padding ("%d")
RECURSIVE Digits(_)
Digits(n) == IF n < 10 THEN <<n>> ELSE Append(Digits(n \div 10), n % 10)

\* "%d" % n: the padding forgotten
Format04d_NoPad(n) == Digits(n)

\* "%04d" % n
Format04d(n) ==
    LET d == Digits(n)
    IN  IF Len(d) >= 4 THEN d ELSE [i \in 1..(4 - Len(d)) |-> 0] \o d

make_image_key(video_id, timestamp) == <<video_id, Format04d(ParseInt(timestamp))>>

-----------------------------------------------------------------------------
(* Dictionaries: a dict is a function whose DOMAIN is its key set.         *)

EmptyDict == [k \in {} |-> <<>>]

\* d[k] = [v]: assignment in place of append
DefaultDictAppend_Assign(d, k, v) ==
    [x \in DOMAIN d \cup {k} |-> IF x = k THEN <<v>> ELSE d[x]]

\* d[k].append(v) on a defaultdict(list)
DefaultDictAppend(d, k, v) ==
    [x \in DOMAIN d \cup {k} |->
        IF x = k THEN Append(IF k \in DOMAIN d THEN d[k] ELSE <<>>, v) ELSE d[x]]

-----------------------------------------------------------------------------
(* read_csv                                                                *)

\* Python truth value of the class_whitelist argument: None and the empty
\* set are both false.
Truthy(wl) == wl.given /\ wl.ids # {}

\* the state of one read_csv call: exception raised so far and the three dicts
CsvState(e, b, l, s) == [err |-> e, boxes |-> b, labels |-> l, scores |-> s]

CsvStart == CsvState("none", EmptyDict, EmptyDict, EmptyDict)

\* 1.0, the score of a row without an 8th field
DefaultScore == 10000

\* the row-count assertion; its message concatenates a str and a list, so a
\* failing assertion surfaces as TypeError; under -O the statement is absent
AssertColumns(ok, opt) == IF opt \/ ok THEN "none" ELSE "TypeError"

\* one iteration of the for loop over the reader
ReadCsvBody(st, row, wl, opt) ==
    IF AssertColumns(Len(row) \in {7, 8}, opt) # "none"
        THEN [st EXCEPT !.err = AssertColumns(Len(row) \in {7, 8}, opt)]
    ELSE IF Len(row) < 2 THEN [st EXCEPT !.err = "IndexError"]   \* row[0], row[1]
    ELSE IF Len(row) < 6 THEN [st EXCEPT !.err = "ValueError"]   \* unpacking row[2:6]
    ELSE IF Len(row) < 7 THEN [st EXCEPT !.err = "IndexError"]   \* row[6]
    ELSE
        LET image_key == make_image_key(row[1], row[2])
            x1 == row[3]
            y1 == row[4]
            x2 == row[5]
            y2 == row[6]
            action_id == row[7]
            score == IF Len(row) = 8 THEN row[8] ELSE DefaultScore
        IN  IF Truthy(wl) /\ action_id \notin wl.ids
                THEN st
                ELSE CsvState("none",
                              DefaultDictAppend(st.boxes, image_key, <<y1, x1, y2, x2>>),
                              DefaultDictAppend(st.labels, image_key, action_id),
                              DefaultDictAppend(st.scores, image_key, score))

ReadCsvRow ==
    /\ pc = "read_csv"
    /\ row_idx <= Len(csv_file)
    /\ LET st == ReadCsvBody(CsvState(err, boxes, labels, scores),
                             csv_file[row_idx], class_whitelist, optimize)
       IN  /\ err' = st.err
           /\ boxes' = st.boxes
           /\ labels' = st.labels
           /\ scores' = st.scores
           /\ pc' = IF st.err = "none" THEN "read_csv" ELSE "raised"
           /\ row_idx' = IF st.err = "none" THEN row_idx + 1 ELSE row_idx
    /\ UNCHANGED <<optimize, csv_file, class_whitelist, exclVars, lmVars, cmVars, runVars>>

ReadCsvReturn ==
    /\ pc = "read_csv"
    /\ row_idx > Len(csv_file)
    /\ pc' = "returned_csv"
    /\ UNCHANGED <<optimize, err, row_idx, csvVars, exclVars, lmVars, cmVars, runVars>>

\* the whole call: the loop run over every row, stopping at the first exception
RECURSIVE ReadCsvFrom(_, _, _, _, _)
ReadCsvFrom(st, file, i, wl, opt) ==
    IF i > Len(file) \/ st.err # "none" THEN st
    ELSE ReadCsvFrom(ReadCsvBody(st, file[i], wl, opt), file, i + 1, wl, opt)

read_csv(file, wl, opt) == ReadCsvFrom(CsvStart, file, 1, wl, opt)

-----------------------------------------------------------------------------
(* read_exclusions                                                         *)

ExclState(e, x) == [err |-> e, excluded |-> x]

\* one iteration of the for loop over the reader
ReadExclusionsBody(st, row, opt) ==
    IF AssertColumns(Len(row) = 2, opt) # "none"
        THEN [st EXCEPT !.err = AssertColumns(Len(row) = 2, opt)]
    ELSE IF Len(row) < 2 THEN [st EXCEPT !.err = "IndexError"]   \* row[0], row[1]
    ELSE ExclState("none", st.excluded \cup {make_image_key(row[1], row[2])})

ReadExclusionsRow ==
    /\ pc = "read_exclusions"
    /\ exclusions_file.given
    /\ row_idx <= Len(exclusions_file.rows)
    /\ LET st == ReadExclusionsBody(ExclState(err, excluded),
                                    exclusions_file.rows[row_idx], optimize)
       IN  /\ err' = st.err
           /\ excluded' = st.excluded
           /\ pc' = IF st.err = "none" THEN "read_exclusions" ELSE "raised"
           /\ row_idx' = IF st.err = "none" THEN row_idx + 1 ELSE row_idx
    /\ UNCHANGED <<optimize, exclusions_file, csvVars, lmVars, cmVars, runVars>>

ReadExclusionsReturn ==
    /\ pc = "read_exclusions"
    /\ ~exclusions_file.given \/ row_idx > Len(exclusions_file.rows)
    /\ pc' = "returned_exclusions"
    /\ UNCHANGED <<optimize, err, row_idx, csvVars, exclVars, lmVars, cmVars, runVars>>

RECURSIVE ReadExclusionsFrom(_, _, _, _)
ReadExclusionsFrom(st, rows, i, opt) ==
    IF i > Len(rows) \/ st.err # "none" THEN st
    ELSE ReadExclusionsFrom(ReadExclusionsBody(st, rows[i], opt), rows, i + 1, opt)

read_exclusions(file, opt) ==
    IF file.given THEN ReadExclusionsFrom(ExclState("none", {}), file.rows, 1, opt)
    ELSE ExclState("none", {})

-----------------------------------------------------------------------------
(* read_labelmap                                                           *)
(* A line is [prefix, quoted, last]: the text it starts with, the text     *)
(* between its first two double quotes, and the digits of its last         *)
(* space-separated token.                                                  *)

Line(p, q, l) == [prefix |-> p, quoted |-> q, last |-> l]

\* line.startswith(p)
StartsWith(line, p) == line.prefix = p

\* the elif test with the second alternative forgotten
IsIdLine_IdOnly(line) == StartsWith(line, "  id:")

\* the elif test: an id line
IsIdLine(line) == StartsWith(line, "  id:") \/ StartsWith(line, "  label_id:")

LmState(n, lm, ids) == [name |-> n, labelmap |-> lm, class_ids |-> ids]

\* one iteration of the for loop over the lines
ReadLabelmapBody(st, line) ==
    IF StartsWith(line, "  name:")
        THEN [st EXCEPT !.name = line.quoted]
    ELSE IF IsIdLine(line)
        THEN LET class_id == ParseInt(line.last)
             IN  LmState(st.name,
                         Append(st.labelmap, [id |-> class_id, name |-> st.name]),
                         st.class_ids \cup {class_id})
    ELSE st

ReadLabelmapLine ==
    /\ pc = "read_labelmap"
    /\ row_idx <= Len(labelmap_file)
    /\ LET st == ReadLabelmapBody(LmState(name, labelmap, class_ids), labelmap_file[row_idx])
       IN  /\ name' = st.name
           /\ labelmap' = st.labelmap
           /\ class_ids' = st.class_ids
    /\ row_idx' = row_idx + 1
    /\ UNCHANGED <<optimize, pc, err, labelmap_file, csvVars, exclVars, cmVars, runVars>>

ReadLabelmapReturn ==
    /\ pc = "read_labelmap"
    /\ row_idx > Len(labelmap_file)
    /\ pc' = "returned_labelmap"
    /\ UNCHANGED <<optimize, err, row_idx, csvVars, exclVars, lmVars, cmVars, runVars>>

RECURSIVE ReadLabelmapFrom(_, _, _)
ReadLabelmapFrom(st, file, i) ==
    IF i > Len(file) THEN st
    ELSE ReadLabelmapFrom(ReadLabelmapBody(st, file[i]), file, i + 1)

read_labelmap(file) == ReadLabelmapFrom(LmState("", <<>>, {}), file, 1)

-----------------------------------------------------------------------------
(* confusion_matrix                                                        *)

\* kf.lstrip("0")
RECURSIVE LStrip0(_)
LStrip0(s) == IF Len(s) > 0 /\ s[1] = 0 THEN LStrip0(Tail(s)) ELSE s

\* "{:.3f}".format(float(x)): x in 1/10000 units, the text as a number of
\* thousandths (no input of the model lies on a rounding tie)
Format3f(x) == (x + 5) \div 10

\* video + "@" + kf.lstrip("0") + "@" + bbs
MatchKey(row) ==
    <<row[1], LStrip0(row[2]),
      Format3f(row[3]), Format3f(row[4]), Format3f(row[5]), Format3f(row[6])>>

\* first pass over a file: dict[i] = []
RECURSIVE RegisterKeys(_, _, _)
RegisterKeys(d, file, i) ==
    IF i > Len(file) THEN d
    ELSE RegisterKeys([k \in DOMAIN d \cup {MatchKey(file[i])} |->
                          IF k = MatchKey(file[i]) THEN <<>> ELSE d[k]],
                      file, i + 1)

\* second pass over a file: dict[i].append(row[6])
RECURSIVE AppendLabels(_, _, _)
AppendLabels(d, file, i) ==
    IF i > Len(file) THEN d
    ELSE AppendLabels([d EXCEPT ![MatchKey(file[i])] = Append(@, file[i][7])],
                      file, i + 1)

LoadDict(file) == AppendLabels(RegisterKeys(EmptyDict, file, 1), file, 1)

\* det_dict.get(key, []): a missing key read as no detection
Lookup_Get(d, key) == [err |-> "none", val |-> IF key \in DOMAIN d THEN d[key] ELSE <<>>]

\* det_dict[key]
Lookup(d, key) ==
    IF key \in DOMAIN d THEN [err |-> "none", val |-> d[key]]
    ELSE [err |-> "KeyError", val |-> <<>>]

\* the scan with the test written "< 10"
RECURSIVE ScanPose_Below10(_, _, _)
ScanPose_Below10(pose, acts, i) ==
    IF i > Len(acts) THEN pose
    ELSE ScanPose_Below10(IF acts[i] < 10 THEN acts[i] - 1 ELSE pose, acts, i + 1)

\* the scan keeping the first pose found: "if pose == -1 and int(a) <= 10"
RECURSIVE ScanPose_First(_, _, _)
ScanPose_First(pose, acts, i) ==
    IF i > Len(acts) THEN pose
    ELSE ScanPose_First(IF pose = -1 /\ acts[i] <= 10 THEN acts[i] - 1 ELSE pose,
                        acts, i + 1)

\* the scan "for a in acts: if int(a) <= 10: pose = int(a) - 1", from pose
RECURSIVE ScanPose(_, _, _)
ScanPose(pose, acts, i) ==
    IF i > Len(acts) THEN pose
    ELSE ScanPose(IF acts[i] <= 10 THEN acts[i] - 1 ELSE pose, acts, i + 1)

\* a numpy index along an axis of length 10: negative indexes count from the end
Axis(i) == IF i < 0 THEN i + 10 ELSE i

\* cm[i, j] += 1
Increment(m, i, j) == [m EXCEPT ![<<Axis(i), Axis(j)>>] = @ + 1]

\* the tally with the mirrored increment forgotten
Tally_OneWay(m, gnd_pose, det_pose) ==
    IF gnd_pose # -1 /\ det_pose # -1 THEN Increment(m, gnd_pose, det_pose) ELSE m

\* the if statement that closes the loop body
Tally(m, gnd_pose, det_pose) ==
    IF gnd_pose # -1 /\ det_pose # -1
        THEN Increment(Increment(m, gnd_pose, det_pose), det_pose, gnd_pose)
        ELSE m

\* np.zeros([10, 10], np.int32)
Zeros == [ij \in (0..9) \X (0..9) |-> 0]

CmLoadGroundtruth ==
    /\ pc = "cm_load_gnd"
    /\ gnd_dict' = LoadDict(groundtruth)
    /\ pc' = "cm_load_det"
    /\ UNCHANGED <<optimize, err, row_idx, csvVars, exclVars, lmVars, runVars,
                   groundtruth, detections, det_dict, todo, cm>>

CmLoadDetections ==
    /\ pc = "cm_load_det"
    /\ det_dict' = LoadDict(detections)
    /\ todo' = DOMAIN gnd_dict
    /\ pc' = "cm_loop"
    /\ UNCHANGED <<optimize, err, row_idx, csvVars, exclVars, lmVars, runVars,
                   groundtruth, detections, gnd_dict, cm>>

\* one iteration of "for key, gnd_acts in gnd_dict.items()"; the order of
\* the items of a dict is not fixed by the language version the code targets
CmTallyKey(key) ==
    /\ pc = "cm_loop"
    /\ key \in todo
    /\ LET det_acts == Lookup(det_dict, key)
       IN  IF det_acts.err # "none"
               THEN /\ err' = det_acts.err
                    /\ pc' = "raised"
                    /\ UNCHANGED <<todo, cm>>
               ELSE /\ cm' = Tally(cm, ScanPose(-1, gnd_dict[key], 1),
                                       ScanPose(-1, det_acts.val, 1))
                    /\ todo' = todo \ {key}
                    /\ UNCHANGED <<err, pc>>
    /\ UNCHANGED <<optimize, row_idx, csvVars, exclVars, lmVars, runVars,
                   groundtruth, detections, gnd_dict, det_dict>>

CmReturn ==
    /\ pc = "cm_loop"
    /\ todo = {}
    /\ pc' = "returned_cm"
    /\ UNCHANGED <<optimize, err, row_idx, csvVars, exclVars, lmVars, cmVars, runVars>>

\* the final loop of confusion_matrix run to its end over the keys left
RECURSIVE TallyKeys(_, _, _, _)
TallyKeys(m, gnd, det, keys) ==
    IF keys = {} THEN [err |-> "none", cm |-> m]
    ELSE LET key == CHOOSE k \in keys : TRUE
             det_acts == Lookup(det, key)
         IN  IF det_acts.err # "none"
                 THEN [err |-> det_acts.err, cm |-> Zeros]
                 ELSE TallyKeys(Tally(m, ScanPose(-1, gnd[key], 1),
                                         ScanPose(-1, det_acts.val, 1)),
                                gnd, det, keys \ {key})

\* the matrix of the rows the scoring keeps: those of a whitelisted class on
\* a frame that is not excluded
confusion_matrix_Scored(gndtruth, dets) ==
    LET Kept(row) == /\ row[7] \in class_ids
                     /\ make_image_key(row[1], row[2]) \notin excluded
        g == LoadDict(SelectSeq(gndtruth, Kept))
        d == LoadDict(SelectSeq(dets, Kept))
    IN  TallyKeys(Zeros, g, d, DOMAIN g)

\* a whole call confusion_matrix(gndtruth, detections, x_axis): the matrix it
\* returns, or the exception it raises (the matrix is then lost)
confusion_matrix(gndtruth, dets) ==
    TallyKeys(Zeros, LoadDict(gndtruth), LoadDict(dets), DOMAIN LoadDict(gndtruth))

-----------------------------------------------------------------------------
(* run_evaluation: the set-up and the loop over the experiment variants    *)

NoWhitelist == [given |-> FALSE, ids |-> {}]
Whitelist(S) == [given |-> TRUE, ids |-> S]
NoFile == [given |-> FALSE, rows |-> <<>>]
File(rows) == [given |-> TRUE, rows |-> rows]

\* PascalDetectionEvaluator(categories, ...): nothing registered yet
NewEvaluator == [groundtruth |-> <<>>, detections |-> <<>>]

\* the exclusion test with the keys never found
IsExcluded_Never(image_key, excluded_keys) == FALSE

\* image_key in excluded_keys
IsExcluded(image_key, excluded_keys) == image_key \in excluded_keys

\* categories, class_whitelist = read_labelmap(labelmap);
\* excluded_keys = read_exclusions(exclusions)
RunSetup ==
    /\ pc = "run_setup"
    /\ LET lm == read_labelmap(labelmap_file)
           ex == read_exclusions(exclusions_file, optimize)
       IN  /\ name' = lm.name
           /\ labelmap' = lm.labelmap
           /\ class_ids' = lm.class_ids
           /\ excluded' = IF ex.err = "none" THEN ex.excluded ELSE excluded
           /\ err' = ex.err
           /\ pc' = IF ex.err = "none" THEN "run_variant" ELSE "raised"
    /\ variant' = 1
    /\ UNCHANGED <<optimize, row_idx, labelmap_file, exclusions_file, csvVars, cmVars,
                   all_detections, all_gndtruths, pending, pascal_evaluator, evaluations,
                   finalmAPs, plotVars>>

\* head of the loop over zip(all_detections, all_gndtruths, filters): a new
\* evaluator, then boxes, labels, _ = read_csv(gndtruth, class_whitelist)
RunReadGroundTruth ==
    /\ pc = "run_variant"
    /\ variant <= Len(all_detections)
    /\ pascal_evaluator' = NewEvaluator
    /\ csv_file' = all_gndtruths[variant]
    /\ class_whitelist' = Whitelist(class_ids)
    /\ LET r == read_csv(all_gndtruths[variant], Whitelist(class_ids), optimize)
       IN  IF r.err = "none"
               THEN /\ boxes' = r.boxes
                    /\ labels' = r.labels
                    /\ pending' = DOMAIN r.boxes
                    /\ pc' = "run_register_gt"
                    /\ UNCHANGED <<err, scores>>
               ELSE /\ err' = r.err
                    /\ pc' = "raised"
                    /\ UNCHANGED <<boxes, labels, scores, pending>>
    /\ UNCHANGED <<optimize, row_idx, exclVars, lmVars, cmVars,
                   all_detections, all_gndtruths, variant, evaluations, finalmAPs, plotVars>>

\* one iteration of the first "for image_key in boxes"
RunRegisterGroundTruth(image_key) ==
    /\ pc = "run_register_gt"
    /\ image_key \in pending
    /\ pending' = pending \ {image_key}
    /\ pascal_evaluator' =
          IF IsExcluded(image_key, excluded) THEN pascal_evaluator
          ELSE [pascal_evaluator EXCEPT !.groundtruth =
                    Append(@, [image_key |-> image_key,
                               boxes |-> boxes[image_key],
                               classes |-> labels[image_key]])]
    /\ UNCHANGED <<optimize, pc, err, row_idx, csvVars, exclVars, lmVars, cmVars,
                   all_detections, all_gndtruths, variant, evaluations, finalmAPs, plotVars>>

\* boxes, labels, scores = read_csv(detections, class_whitelist)
RunReadDetections ==
    /\ pc = "run_register_gt"
    /\ pending = {}
    /\ csv_file' = all_detections[variant]
    /\ LET r == read_csv(all_detections[variant], Whitelist(class_ids), optimize)
       IN  IF r.err = "none"
               THEN /\ boxes' = r.boxes
                    /\ labels' = r.labels
                    /\ scores' = r.scores
                    /\ pending' = DOMAIN r.boxes
                    /\ pc' = "run_register_det"
                    /\ UNCHANGED err
               ELSE /\ err' = r.err
                    /\ pc' = "raised"
                    /\ UNCHANGED <<boxes, labels, scores, pending>>
    /\ UNCHANGED <<optimize, row_idx, class_whitelist, exclVars, lmVars, cmVars,
                   all_detections, all_gndtruths, variant, pascal_evaluator, evaluations,
                   finalmAPs, plotVars>>

\* one iteration of the second "for image_key in boxes"
RunRegisterDetection(image_key) ==
    /\ pc = "run_register_det"
    /\ image_key \in pending
    /\ pending' = pending \ {image_key}
    /\ pascal_evaluator' =
          IF IsExcluded(image_key, excluded) THEN pascal_evaluator
          ELSE [pascal_evaluator EXCEPT !.detections =
                    Append(@, [image_key |-> image_key,
                               boxes |-> boxes[image_key],
                               classes |-> labels[image_key],
                               scores |-> scores[image_key]])]
    /\ UNCHANGED <<optimize, pc, err, row_idx, csvVars, exclVars, lmVars, cmVars,
                   all_detections, all_gndtruths, variant, evaluations, finalmAPs, plotVars>>

\* the value evaluate() reports under the key 'mAP@<iou>IOU' for a variant:
\* the number itself is computed outside this file and is kept symbolic
evaluate(v) == [mAP_of |-> v]

\* metrics = pascal_evaluator.evaluate(), finalmAPs.append(final_value) for
\* the one metric named 'mAP@<iou>IOU', and on to the next variant
RunEvaluate ==
    /\ pc = "run_register_det"
    /\ pending = {}
    /\ evaluations' = Append(evaluations, pascal_evaluator)
    /\ finalmAPs' = Append(finalmAPs, evaluate(variant))
    /\ variant' = variant + 1
    /\ pc' = "run_variant"
    /\ UNCHANGED <<optimize, err, row_idx, csvVars, exclVars, lmVars, cmVars,
                   all_detections, all_gndtruths, pending, pascal_evaluator, plotVars>>

\* the loop over the variants is over
RunVariantsDone ==
    /\ pc = "run_variant"
    /\ variant > Len(all_detections)
    /\ pc' = "run_plot"
    /\ UNCHANGED <<optimize, err, row_idx, csvVars, exclVars, lmVars, cmVars, runVars>>

Min(a, b) == IF a <= b THEN a ELSE b

\* results.txt before the run opens it
NoResults == [opened |-> FALSE, lines |-> <<>>]

\* the loop over zip(filters, finalmAPs) with nothing written
ResultLines_None(n, mAPs) == <<>>

\* the lines written by "for filter_type, mAP in zip(filters, finalmAPs)";
\* the label of a variant is modelled by the index of the variant
ResultLines(n, mAPs) ==
    [v \in 1..Min(n, Len(mAPs)) |-> [filter_type |-> v, mAP |-> mAPs[v]]]

\* the bar plots, then results.txt opened for writing, written and closed
RunWriteResults ==
    /\ pc = "run_plot"
    /\ results_file' = [opened |-> TRUE,
                        lines |-> ResultLines(Len(all_detections), finalmAPs)]
    /\ subplot' = 1
    /\ pc' = "run_matrices"
    /\ UNCHANGED <<optimize, err, row_idx, csvVars, exclVars, lmVars, cmVars,
                   all_detections, all_gndtruths, variant, pending, pascal_evaluator,
                   evaluations, finalmAPs, matrices>>

\* the if / elif chain on len(all_detections)
sz(n) == IF n = 1 THEN 2 ELSE IF n = 2 THEN 3 ELSE IF n = 3 THEN 4 ELSE 5

\* the loop over the subplots stopped at its first iteration
range_OnlyFirst(lo, hi) == IF lo < hi THEN {lo} ELSE {}

\* range(lo, hi)
range(lo, hi) == lo..(hi - 1)

\* one iteration of "for i in range(1, sz)": the panel of index i, with the
\* matrix of the i-th pair of files when there is such a pair
RunSubplot ==
    /\ pc = "run_matrices"
    /\ subplot \in range(1, sz(Len(all_detections)))
    /\ IF subplot <= Len(all_detections)
           THEN LET r == confusion_matrix(all_gndtruths[subplot],
                                          all_detections[subplot])
                IN  IF r.err = "none"
                        THEN /\ matrices' = Append(matrices,
                                                   [i |-> subplot, cm |-> r.cm])
                             /\ subplot' = subplot + 1
                             /\ UNCHANGED <<pc, err>>
                        ELSE /\ err' = r.err
                             /\ pc' = "raised"
                             /\ UNCHANGED <<subplot, matrices>>
           ELSE /\ subplot' = subplot + 1
                /\ UNCHANGED <<pc, err, matrices>>
    /\ UNCHANGED <<optimize, row_idx, csvVars, exclVars, lmVars, cmVars,
                   all_detections, all_gndtruths, variant, pending, pascal_evaluator,
                   evaluations, finalmAPs, results_file>>

\* the loop is over: the last plt.show(), and run_evaluation returns
RunReturn ==
    /\ pc = "run_matrices"
    /\ subplot \notin range(1, sz(Len(all_detections)))
    /\ pc' = "returned_run"
    /\ UNCHANGED <<optimize, err, row_idx, csvVars, exclVars, lmVars, cmVars, runVars>>

-----------------------------------------------------------------------------
(* Inputs of the parser specification.                                     *)

\* (video id, timestamp) fields: "0005" and "5" denote the same frame
Locs == {<<"v1", <<0, 0, 0, 5>>>>, <<"v1", <<5>>>>, <<"v2", <<1, 2>>>>}

\* x1, y1, x2, y2 [, score] fields
Geoms == {<<1000, 2000, 3000, 4000>>, <<1500, 2500, 3500, 4500, 9000>>}

CsvCategories == {3, 11}

WellFormedRows ==
    {<<loc[1], loc[2], g[1], g[2], g[3], g[4], c>> \o SubSeq(g, 5, Len(g)) :
        loc \in Locs, g \in Geoms, c \in CsvCategories}

\* rows of 6 and of 9 fields
MalformedRows ==
    {<<"v1", <<5>>, 1000, 2000, 3000, 4000>>,
     <<"v1", <<5>>, 1000, 2000, 3000, 4000, 3, 9000, 7>>}

CsvRows == WellFormedRows \cup MalformedRows

Whitelists == {NoWhitelist, Whitelist({}), Whitelist({3})}

\* exclusion rows of 2 fields, and of 1 and 3 fields
ExclRows ==
    {<<loc[1], loc[2]>> : loc \in Locs} \cup {<<"v1">>, <<"v1", <<5>>, <<0>>>>}

\* the variables of a function that is not running
IdleCsv ==
    /\ csv_file = <<>> /\ class_whitelist = NoWhitelist
    /\ boxes = EmptyDict /\ labels = EmptyDict /\ scores = EmptyDict
IdleExcl == exclusions_file = NoFile /\ excluded = {}
IdleLm == labelmap_file = <<>> /\ name = "" /\ labelmap = <<>> /\ class_ids = {}
IdleCm ==
    /\ groundtruth = <<>> /\ detections = <<>>
    /\ gnd_dict = EmptyDict /\ det_dict = EmptyDict /\ todo = {} /\ cm = Zeros
IdleRun ==
    /\ all_detections = <<>> /\ all_gndtruths = <<>> /\ variant = 1 /\ pending = {}
    /\ pascal_evaluator = NewEvaluator /\ evaluations = <<>>
    /\ finalmAPs = <<>> /\ results_file = NoResults /\ subplot = 1 /\ matrices = <<>>

InitParse ==
    /\ optimize \in BOOLEAN
    /\ err = "none"
    /\ row_idx = 1
    /\ boxes = EmptyDict
    /\ labels = EmptyDict
    /\ scores = EmptyDict
    /\ excluded = {}
    /\ IdleLm
    /\ IdleCm
    /\ IdleRun
    /\ \/ /\ pc = "read_csv"
          /\ csv_file \in SeqsUpTo(CsvRows, MaxCsvRows)
          /\ class_whitelist \in Whitelists
          /\ exclusions_file = NoFile
       \/ /\ pc = "read_exclusions"
          /\ csv_file = <<>>
          /\ class_whitelist = NoWhitelist
          /\ exclusions_file \in {NoFile} \cup {File(r) : r \in SeqsUpTo(ExclRows, MaxExclRows)}

NextParse ==
    \/ ReadCsvRow
    \/ ReadCsvReturn
    \/ ReadExclusionsRow
    \/ ReadExclusionsReturn

SpecParse == InitParse /\ [][NextParse]_vars

-----------------------------------------------------------------------------
(* Inputs of the label-map specification.                                  *)

LabelmapLines ==
    {Line("  name:", "bend", <<>>), Line("  name:", "sit", <<>>),
     Line("  id:", "", <<1>>), Line("  id:", "", <<2>>),
     Line("  label_id:", "", <<1>>), Line("}", "", <<>>)}

InitLabelmap ==
    /\ optimize \in BOOLEAN
    /\ pc = "read_labelmap"
    /\ err = "none"
    /\ row_idx = 1
    /\ labelmap_file \in SeqsUpTo(LabelmapLines, MaxLines)
    /\ name = "" /\ labelmap = <<>> /\ class_ids = {}
    /\ IdleCsv
    /\ IdleExcl
    /\ IdleCm
    /\ IdleRun

NextLabelmap == ReadLabelmapLine \/ ReadLabelmapReturn

SpecLabelmap == InitLabelmap /\ [][NextLabelmap]_vars

-----------------------------------------------------------------------------
(* Inputs of the confusion-matrix specification.                           *)

\* Rows of two boxes: the first written as frame "5" / "05" with
\* x1 = 0.1000 / 0.1004 (one match key), the second as frame "50" with
\* x1 = 0.1006.  Categories 2 and 10 are poses, 11 is not; 0 is below the
\* ids of a label map.
CmRows ==
    {<<"v1", <<5>>, 1000, 2000, 3000, 4000, 2>>,
     <<"v1", <<0, 5>>, 1004, 2000, 3000, 4000, 10>>,
     <<"v1", <<5>>, 1000, 2000, 3000, 4000, 11>>,
     <<"v1", <<5>>, 1000, 2000, 3000, 4000, 0>>,
     <<"v1", <<5, 0>>, 1006, 2000, 3000, 4000, 2, 9000>>}

InitCM ==
    /\ optimize = FALSE
    /\ pc = "cm_load_gnd"
    /\ err = "none"
    /\ row_idx = 1
    /\ groundtruth \in SeqsUpTo(CmRows, MaxGtRows)
    /\ detections \in SeqsUpTo(CmRows, MaxDetRows)
    /\ gnd_dict = EmptyDict /\ det_dict = EmptyDict /\ todo = {} /\ cm = Zeros
    /\ IdleCsv
    /\ IdleExcl
    /\ IdleLm
    /\ IdleRun

NextCM ==
    \/ CmLoadGroundtruth
    \/ CmLoadDetections
    \/ \E key \in todo : CmTallyKey(key)
    \/ CmReturn

SpecCM == InitCM /\ [][NextCM]_vars

-----------------------------------------------------------------------------
(* Inputs of the run_evaluation specification.                             *)

\* the numbers of detection files of the experiments of the table
VariantCounts == {1, 2}

\* a pose row of frame v1/5 and a scored non-pose row of frame v2/12
RunRows ==
    {<<"v1", <<5>>, 1000, 2000, 3000, 4000, 2>>,
     <<"v2", <<1, 2>>, 1000, 2000, 3000, 4000, 11, 9000>>}

RunFiles == SeqsUpTo(RunRows, MaxRunRows)

RunLabelmaps ==
    {<<Line("  name:", "bend", <<>>), Line("  id:", "", <<2>>)>>,
     <<Line("  name:", "bend", <<>>), Line("  id:", "", <<2>>),
       Line("  name:", "answer phone", <<>>), Line("  id:", "", <<1, 1>>)>>}

\* no exclusions file, frame v1/5 written "0005", frame v2/12 written "12"
RunExclusions ==
    {NoFile, File(<<<<"v1", <<0, 0, 0, 5>>>>>>), File(<<<<"v2", <<1, 2>>>>>>)}

InitRun ==
    /\ optimize = FALSE
    /\ pc = "run_setup"
    /\ err = "none"
    /\ row_idx = 1
    /\ labelmap_file \in RunLabelmaps
    /\ name = "" /\ labelmap = <<>> /\ class_ids = {}
    /\ exclusions_file \in RunExclusions
    /\ excluded = {}
    /\ \E n \in VariantCounts :
          /\ all_detections \in [1..n -> RunFiles]
          /\ \E gt \in RunFiles : all_gndtruths = [i \in 1..n |-> gt]
    /\ variant = 1
    /\ pending = {}
    /\ pascal_evaluator = NewEvaluator
    /\ evaluations = <<>>
    /\ finalmAPs = <<>>
    /\ results_file = NoResults
    /\ subplot = 1
    /\ matrices = <<>>
    /\ IdleCsv
    /\ IdleCm

NextRun ==
    \/ RunSetup
    \/ RunReadGroundTruth
    \/ \E image_key \in pending : RunRegisterGroundTruth(image_key)
    \/ RunReadDetections
    \/ \E image_key \in pending : RunRegisterDetection(image_key)
    \/ RunEvaluate
    \/ RunVariantsDone
    \/ RunWriteResults
    \/ RunSubplot
    \/ RunReturn

SpecRun == InitRun /\ [][NextRun]_vars

-----------------------------------------------------------------------------
(* Inputs of the run_evaluation specification with many variants: the      *)
(* experiment table is configuration, an entry may list any number of      *)
(* detection files.                                                        *)

\* the pose row of frame v1/5, and the same box labelled with a non-pose class
PoseRow == <<"v1", <<5>>, 1000, 2000, 3000, 4000, 2>>
OtherRow == <<"v1", <<5>>, 1000, 2000, 3000, 4000, 11, 9000>>

\* a detection file without the box, with the box as a pose, with the box as
\* another class
ManyFiles == {<<>>, <<PoseRow>>, <<OtherRow>>}

ManyLabelmap ==
    <<Line("  name:", "bend", <<>>), Line("  id:", "", <<2>>),
      Line("  name:", "answer phone", <<>>), Line("  id:", "", <<1, 1>>)>>

InitRunMany ==
    /\ optimize = FALSE
    /\ pc = "run_setup"
    /\ err = "none"
    /\ row_idx = 1
    /\ labelmap_file = ManyLabelmap
    /\ name = "" /\ labelmap = <<>> /\ class_ids = {}
    /\ exclusions_file = NoFile
    /\ excluded = {}
    /\ \E n \in 1..MaxSources :
          /\ all_detections \in [1..n -> ManyFiles]
          /\ all_gndtruths = [i \in 1..n |-> <<PoseRow>>]
    /\ variant = 1
    /\ pending = {}
    /\ pascal_evaluator = NewEvaluator
    /\ evaluations = <<>>
    /\ finalmAPs = <<>>
    /\ results_file = NoResults
    /\ subplot = 1
    /\ matrices = <<>>
    /\ IdleCsv
    /\ IdleCm

SpecRunMany == InitRunMany /\ [][NextRun]_vars

-----------------------------------------------------------------------------
(* Inputs of the run_evaluation specification with malformed files.        *)

\* rows of 6 and of 9 fields
ShortRow == <<"v1", <<5>>, 1000, 2000, 3000, 4000>>
LongRow == <<"v1", <<5>>, 1000, 2000, 3000, 4000, 2, 9000, 7>>

\* a scored non-pose row of frame v2/12
FarRow == <<"v2", <<1, 2>>, 1000, 2000, 3000, 4000, 11, 9000>>

MixedFiles == {<<>>, <<PoseRow>>, <<PoseRow, FarRow>>, <<ShortRow>>, <<LongRow>>}

\* a label map with the pose class only, and one without the pose class
MixedLabelmaps ==
    {<<Line("  name:", "bend", <<>>), Line("  id:", "", <<2>>)>>,
     <<Line("  name:", "answer phone", <<>>), Line("  id:", "", <<1, 1>>)>>}

\* no exclusions file, frame v1/5 excluded, a row of one field
MixedExclusions ==
    {NoFile, File(<<<<"v1", <<0, 0, 0, 5>>>>>>), File(<<<<"v1">>>>)}

InitRunMixed ==
    /\ optimize \in BOOLEAN
    /\ pc = "run_setup"
    /\ err = "none"
    /\ row_idx = 1
    /\ labelmap_file \in MixedLabelmaps
    /\ name = "" /\ labelmap = <<>> /\ class_ids = {}
    /\ exclusions_file \in MixedExclusions
    /\ excluded = {}
    /\ \E n \in VariantCounts :
          /\ all_detections \in [1..n -> MixedFiles]
          /\ \E gt \in MixedFiles : all_gndtruths = [i \in 1..n |-> gt]
    /\ variant = 1
    /\ pending = {}
    /\ pascal_evaluator = NewEvaluator
    /\ evaluations = <<>>
    /\ finalmAPs = <<>>
    /\ results_file = NoResults
    /\ subplot = 1
    /\ matrices = <<>>
    /\ IdleCsv
    /\ IdleCm

SpecRunMixed == InitRunMixed /\ [][NextRun]_vars

-----------------------------------------------------------------------------
(* Properties of read_csv and read_exclusions, checked under SpecParse.    *)

\* the row the reader yields next
CurrentRow == csv_file[row_idx]

\* a row that passes the whitelist test of read_csv
Survives(row, wl) == ~wl.given \/ wl.ids = {} \/ row[7] \in wl.ids

\* the list at key k, an absent key read as the empty list
ListAt(d, k) == IF k \in DOMAIN d THEN d[k] ELSE <<>>

\* k is '<video>,<timestamp zero-padded to 4 digits>' for the fields of row
IsPaddedKeyOf(k, row) ==
    /\ k[1] = row[1]
    /\ Len(k[2]) >= 4
    /\ ParseInt(k[2]) = ParseInt(row[2])
    /\ Len(k[2]) > 4 => k[2][1] # 0

\* C3 (as claimed): whenever a whitelist set is supplied, empty or not, a
\* well-formed row whose category id is not a member of it is dropped without
\* error: the step that reads it adds no box, label or score.
C3_SuppliedWhitelistDrops ==
    [][(/\ ReadCsvRow
        /\ class_whitelist.given
        /\ Len(CurrentRow) \in {7, 8}
        /\ CurrentRow[7] \notin class_whitelist.ids)
       => (err' = "none" /\ boxes' = boxes /\ labels' = labels /\ scores' = scores)]_vars

\* C4 (as claimed): a row with an unexpected field count is fatal: read_csv
\* never gets past a row whose length is neither 7 nor 8, read_exclusions never
\* gets past a row whose length is not 2, and neither returns after such a row.
C4_MalformedRowFatal ==
    /\ pc \in {"read_csv", "returned_csv"} =>
          \A i \in 1..(row_idx - 1) : Len(csv_file[i]) \in {7, 8}
    /\ pc \in {"read_exclusions", "returned_exclusions"} =>
          \A i \in 1..(row_idx - 1) : Len(exclusions_file.rows[i]) = 2

\* C5: the step that reads a well-formed row that survives the whitelist
\* appends, under the key '<video>,<timestamp zero-padded to 4 digits>', the
\* box [y1, x1, y2, x2], the category id, and the score (the 8th field, or 1.0
\* for a row of 7 fields); no other key changes.
C5_RowRecorded ==
    [][(/\ ReadCsvRow
        /\ Len(CurrentRow) \in {7, 8}
        /\ Survives(CurrentRow, class_whitelist))
       => \E k \in DOMAIN boxes' :
             /\ IsPaddedKeyOf(k, CurrentRow)
             /\ boxes'[k] = Append(ListAt(boxes, k),
                                   <<CurrentRow[4], CurrentRow[3], CurrentRow[6], CurrentRow[5]>>)
             /\ labels'[k] = Append(ListAt(labels, k), CurrentRow[7])
             /\ scores'[k] = Append(ListAt(scores, k),
                                    IF Len(CurrentRow) = 8 THEN CurrentRow[8] ELSE 10000)
             /\ \A j \in DOMAIN boxes' \ {k} :
                   /\ j \in DOMAIN boxes
                   /\ boxes'[j] = boxes[j] /\ labels'[j] = labels[j] /\ scores'[j] = scores[j]]_vars

\* C5 witness: an unpadded 8-field row and a padded 7-field row of the same
\* frame were both recorded under the padded key.
C5_Witness ==
    /\ pc = "returned_csv"
    /\ Len(csv_file) = 2
    /\ csv_file[1][2] = <<5>> /\ Len(csv_file[1]) = 8
    /\ csv_file[2][2] = <<0, 0, 0, 5>> /\ Len(csv_file[2]) = 7
    /\ <<"v1", <<0, 0, 0, 5>>>> \in DOMAIN boxes
    /\ scores[<<"v1", <<0, 0, 0, 5>>>>] = <<9000, 10000>>
    /\ boxes[<<"v1", <<0, 0, 0, 5>>>>] = <<<<2500, 1500, 4500, 3500>>, <<2000, 1000, 4000, 3000>>>>

\* the rows read so far that belong to frame k and survive the whitelist
SurvivorsOf(k) ==
    SelectSeq(SubSeq(csv_file, 1, row_idx - 1),
              LAMBDA r : make_image_key(r[1], r[2]) = k /\ Survives(r, class_whitelist))

-----------------------------------------------------------------------------
(* Properties of read_labelmap, checked under SpecLabelmap.                *)

\* the indexes of the id lines read so far, in file order
IdLineIndexes ==
    SelectSeq([i \in 1..(row_idx - 1) |-> i],
              LAMBDA i : labelmap_file[i].prefix \in {"  id:", "  label_id:"})

\* the value of the last name line before line i ("" when there is none)
NameBefore(i) ==
    LET S == {j \in 1..(i - 1) : labelmap_file[j].prefix = "  name:"}
    IN  IF S = {} THEN ""
        ELSE labelmap_file[CHOOSE j \in S : \A m \in S : m <= j].quoted

\* C9: read_labelmap emits exactly one entry per id line ('  id:' or
\* '  label_id:'), in the order of the id lines; an entry's name is the value
\* of the name line remembered before its id line; a name line without a
\* following id line gives no entry; class_ids is the set of the entries' ids.
C9_OneEntryPerIdLine ==
    pc \in {"read_labelmap", "returned_labelmap"} =>
        /\ Len(labelmap) = Len(IdLineIndexes)
        /\ \A n \in 1..Len(labelmap) :
              labelmap[n] = [id |-> ParseInt(labelmap_file[IdLineIndexes[n]].last),
                             name |-> NameBefore(IdLineIndexes[n])]
        /\ class_ids = {labelmap[n].id : n \in 1..Len(labelmap)}

\* C9 witness: name "bend", id 1, then a name line that no id line follows.
C9_Witness ==
    /\ pc = "returned_labelmap"
    /\ labelmap_file = <<Line("  name:", "bend", <<>>), Line("  id:", "", <<1>>),
                         Line("  name:", "sit", <<>>)>>
    /\ labelmap = <<[id |-> 1, name |-> "bend"]>>
    /\ class_ids = {1}

-----------------------------------------------------------------------------
(* Properties of confusion_matrix, checked under SpecCM.                   *)

GtKeys == {MatchKey(groundtruth[i]) : i \in 1..Len(groundtruth)}
DetKeys == {MatchKey(detections[i]) : i \in 1..Len(detections)}

\* matrix m with cell [i][j] one higher
Bump(m, i, j) == [m EXCEPT ![<<i, j>>] = @ + 1]

\* the category ids <= 10 of a label list
PoseBand(acts) == {acts[i] : i \in {j \in 1..Len(acts) : acts[j] <= 10}}

\* the last category id <= 10 of a label list, as a set of at most one id
LastPoseBand(acts) ==
    LET S == {j \in 1..Len(acts) : acts[j] <= 10}
    IN  IF S = {} THEN {} ELSE {acts[CHOOSE j \in S : \A m \in S : m <= j]}

\* C1 (as claimed): confusion_matrix never returns a matrix when some detection
\* row's MatchKey does not occur among the MatchKeys of the ground-truth rows.
C1_DetectionKeyMissingFails ==
    DetKeys \ GtKeys # {} => pc # "returned_cm"

\* C1 (amended): when some ground-truth row's MatchKey does not occur among the
\* MatchKeys of the detection rows, confusion_matrix never returns a matrix:
\* it runs on until it stops with KeyError.
C1_GroundTruthKeyMissingFails ==
    GtKeys \ DetKeys # {} =>
        /\ pc # "returned_cm"
        /\ pc = "raised" => err = "KeyError"
        /\ pc # "raised" => ENABLED NextCM

\* C1 witness: the lookup failed on a ground-truth key without detection.
C1_Witness ==
    /\ pc = "raised"
    /\ err = "KeyError"
    /\ GtKeys \ DetKeys # {}
    /\ DetKeys # {}

\* C2 (as claimed): tallying a key whose ground-truth pose category and
\* detected pose category are the same category c raises matrix[c-1][c-1] by
\* exactly 1.
C2_DiagonalByOne ==
    [][\A k \in todo, c \in 1..10 :
          (/\ CmTallyKey(k)
           /\ k \in DOMAIN det_dict
           /\ PoseBand(gnd_dict[k]) = {c}
           /\ PoseBand(det_dict[k]) = {c})
          => cm'[<<c - 1, c - 1>>] = cm[<<c - 1, c - 1>>] + 1]_vars

\* C2 (amended): tallying such a key raises matrix[c-1][c-1] by exactly 2 and
\* changes no other cell.
C2_DiagonalByTwo ==
    [][\A k \in todo, c \in 1..10 :
          (/\ CmTallyKey(k)
           /\ k \in DOMAIN det_dict
           /\ PoseBand(gnd_dict[k]) = {c}
           /\ PoseBand(det_dict[k]) = {c})
          => cm' = [cm EXCEPT ![<<c - 1, c - 1>>] = @ + 2]]_vars

\* C2 witness: one key, category 2 on both sides, was tallied.
C2_Witness ==
    /\ pc = "returned_cm"
    /\ Len(groundtruth) = 1 /\ groundtruth[1][7] = 2
    /\ Len(detections) = 1 /\ detections[1][7] = 2
    /\ cm = [Zeros EXCEPT ![<<1, 1>>] = 2]

\* C7: the matrix confusion_matrix returns is symmetric.
C7_Symmetric ==
    pc = "returned_cm" => \A i, j \in 0..9 : cm[<<i, j>>] = cm[<<j, i>>]

\* C7 witness: a matched pair of different poses (truth 2, detected 10) is in
\* both mirrored cells of the returned matrix.
C7_Witness ==
    /\ pc = "returned_cm"
    /\ cm[<<1, 9>>] = 1
    /\ cm[<<9, 1>>] = 1

\* C10 (as claimed): tallying a ground-truth key whose label list contains an
\* id <= 10 and whose detection list contains an id <= 10 increments
\* matrix[truth][pred] and matrix[pred][truth], truth and pred in 0..9 being
\* such ids minus 1; tallying any other key changes nothing and raises nothing.
C10_TallyAsClaimed ==
    [][\A k \in todo :
          CmTallyKey(k) =>
            IF /\ PoseBand(gnd_dict[k]) # {}
               /\ k \in DOMAIN det_dict
               /\ PoseBand(det_dict[k]) # {}
            THEN /\ err' = "none"
                 /\ \E a \in PoseBand(gnd_dict[k]), b \in PoseBand(det_dict[k]) :
                       /\ a - 1 \in 0..9
                       /\ b - 1 \in 0..9
                       /\ cm' = Bump(Bump(cm, a - 1, b - 1), b - 1, a - 1)
            ELSE cm' = cm /\ err' = "none"]_vars

\* C10 (amended): tallying a ground-truth key that has no detection list stops
\* with KeyError.  Otherwise, when the last id <= 10 of the ground-truth list
\* and the last id <= 10 of the detection list both exist and are >= 1,
\* matrix[truth][pred] and matrix[pred][truth] are incremented, truth and pred
\* in 0..9 being those two ids minus 1; in every other case the matrix is
\* unchanged and no error is raised.
C10_TallyLastPose ==
    [][\A k \in todo :
          CmTallyKey(k) =>
            IF k \notin DOMAIN det_dict
            THEN err' = "KeyError" /\ pc' = "raised" /\ cm' = cm
            ELSE LET g == LastPoseBand(gnd_dict[k])
                     d == LastPoseBand(det_dict[k])
                 IN  /\ err' = "none"
                     /\ IF g \cap (1..10) # {} /\ d \cap (1..10) # {}
                        THEN \E a \in g, b \in d :
                                cm' = Bump(Bump(cm, a - 1, b - 1), b - 1, a - 1)
                        ELSE cm' = cm]_vars

\* C10 witness: of two ground-truth keys, the one without a pose id left the
\* matrix alone and the one with pose 2 on both sides was tallied.
C10_Witness ==
    /\ pc = "returned_cm"
    /\ Cardinality(DOMAIN gnd_dict) = 2
    /\ \E k \in DOMAIN gnd_dict : gnd_dict[k] = <<11>> /\ PoseBand(det_dict[k]) = {10}
    /\ \E k \in DOMAIN gnd_dict : gnd_dict[k] = <<2>> /\ det_dict[k] = <<2>>
    /\ cm = [Zeros EXCEPT ![<<1, 1>>] = 2]

\* the indexes of the rows of a file that have match key k and a category id <= 10
PoseRows(file, k) ==
    {i \in 1..Len(file) : MatchKey(file[i]) = k /\ file[i][7] <= 10}

\* the category id of the last such row in file order, as a set of at most one id
LastPoseRow(file, k) ==
    LET S == PoseRows(file, k)
    IN  IF S = {} THEN {} ELSE {file[CHOOSE i \in S : \A m \in S : m <= i][7]}

\* C11: when several rows with a category id <= 10 share one MatchKey, on the
\* ground-truth side or on the detection side, the tally of that key uses on
\* each side only the last such row in file order: the cells of that pair of
\* ids (minus 1) are incremented, or nothing is when one of the two ids is 0;
\* the earlier rows of the key play no part.
C11_LastPoseRowWins ==
    [][\A k \in todo :
          (/\ CmTallyKey(k)
           /\ k \in DetKeys
           /\ \/ Cardinality(PoseRows(groundtruth, k)) >= 2
              \/ Cardinality(PoseRows(detections, k)) >= 2)
          => LET g == LastPoseRow(groundtruth, k)
                 d == LastPoseRow(detections, k)
             IN  /\ err' = "none"
                 /\ IF g \cap (1..10) # {} /\ d \cap (1..10) # {}
                    THEN \E a \in g, b \in d :
                            cm' = Bump(Bump(cm, a - 1, b - 1), b - 1, a - 1)
                    ELSE cm' = cm]_vars

\* C11 witness: ground truth has poses 2 then 10 at one key and the detections
\* 10 then 2 at the same key; the returned matrix holds the pair (10, 2) alone.
C11_Witness ==
    /\ pc = "returned_cm"
    /\ Len(groundtruth) = 2 /\ Len(detections) = 2
    /\ Cardinality(GtKeys \cup DetKeys) = 1
    /\ groundtruth[1][7] = 2 /\ groundtruth[2][7] = 10
    /\ detections[1][7] = 10 /\ detections[2][7] = 2
    /\ cm = [[Zeros EXCEPT ![<<9, 1>>] = 1] EXCEPT ![<<1, 9>>] = 1]

-----------------------------------------------------------------------------
(* Properties of run_evaluation, checked under SpecRun.                    *)

\* the ExclusionSet of the run: the frame keys of the rows of the exclusions file
ExclusionSet ==
    {make_image_key(exclusions_file.rows[i][1], exclusions_file.rows[i][2]) :
        i \in 1..Len(exclusions_file.rows)}

\* the frame keys of the FrameIndex read_csv builds from a file of the run
FrameKeys(file) == DOMAIN read_csv(file, Whitelist(class_ids), optimize).boxes

\* how many of the registrations in calls are for image_key
Registrations(calls, image_key) ==
    Cardinality({i \in 1..Len(calls) : calls[i].image_key = image_key})

RegisteredKeys(calls) == {calls[i].image_key : i \in 1..Len(calls)}

\* C8: no frame key of the ExclusionSet is ever registered with an evaluator,
\* as ground truth or as a detection; when a variant is evaluated, every other
\* frame key of its ground-truth FrameIndex has been registered exactly once
\* as ground truth and every other frame key of its detection FrameIndex
\* exactly once as a detection, and nothing else has been registered.
C8_ExcludedNeverRegistered ==
    pc # "run_setup" =>
        /\ RegisteredKeys(pascal_evaluator.groundtruth) \cap ExclusionSet = {}
        /\ RegisteredKeys(pascal_evaluator.detections) \cap ExclusionSet = {}
        /\ \A v \in 1..Len(evaluations) :
              /\ RegisteredKeys(evaluations[v].groundtruth)
                    = FrameKeys(all_gndtruths[v]) \ ExclusionSet
              /\ RegisteredKeys(evaluations[v].detections)
                    = FrameKeys(all_detections[v]) \ ExclusionSet
              /\ \A k \in RegisteredKeys(evaluations[v].groundtruth) :
                    Registrations(evaluations[v].groundtruth, k) = 1
              /\ \A k \in RegisteredKeys(evaluations[v].detections) :
                    Registrations(evaluations[v].detections, k) = 1

\* C8 witness: two variants were evaluated; frame v1/5, excluded as "0005" and
\* present as "5" in the ground truth and in the second detection file, was
\* registered by neither, and frame v2/12 by both.
C8_Witness ==
    /\ pc = "run_plot"
    /\ Len(evaluations) = 2
    /\ ExclusionSet = {<<"v1", <<0, 0, 0, 5>>>>}
    /\ FrameKeys(all_gndtruths[2]) = {<<"v1", <<0, 0, 0, 5>>>>, <<"v2", <<0, 0, 1, 2>>>>}
    /\ FrameKeys(all_detections[2]) = {<<"v1", <<0, 0, 0, 5>>>>, <<"v2", <<0, 0, 1, 2>>>>}
    /\ RegisteredKeys(evaluations[2].groundtruth) = {<<"v2", <<0, 0, 1, 2>>>>}
    /\ RegisteredKeys(evaluations[2].detections) = {<<"v2", <<0, 0, 1, 2>>>>}

-----------------------------------------------------------------------------
(* Properties of the loop over the confusion matrices, checked under       *)
(* SpecRunMany.                                                            *)

\* the indexes for which confusion_matrix returned a matrix to the run, in order
MatrixIndexes == [j \in 1..Len(matrices) |-> matrices[j].i]

-----------------------------------------------------------------------------
(* Properties of the results file, checked under SpecRunMixed.             *)

\* the exceptions a malformed row raises in read_csv or read_exclusions
MalformedRowErrors == {"TypeError", "IndexError", "ValueError"}

\* C13 as stated: a run that terminated with a malformed-row error or with a
\* missing-key error of confusion_matrix has written no metric line to the
\* results file.
C13_FailedRunNoLines ==
    pc = "raised" => results_file.lines = <<>>

\* C13, amended: a run that terminated with a malformed-row error has not
\* even opened the results file; a run that terminated with a missing-key
\* error of confusion_matrix has written the metric line of every variant
\* before; and metric lines exist only once every file of every variant
\* has been parsed and evaluated.
C13_LinesBeforeMatrices ==
    /\ (pc = "raised" /\ err \in MalformedRowErrors) => results_file = NoResults
    /\ (pc = "raised" /\ err = "KeyError") =>
          /\ results_file.opened
          /\ results_file.lines =
                [v \in 1..Len(all_detections) |-> [filter_type |-> v, mAP |-> evaluate(v)]]
    /\ pc = "raised" => err \in MalformedRowErrors \cup {"KeyError"}
    /\ results_file.lines # <<>> =>
          /\ Len(evaluations) = Len(all_detections)
          /\ variant > Len(all_detections)

\* the second call of confusion_matrix of a run over two detection files
\* raised the missing-key error: a matrix was returned and two metric lines
\* are in the results file
C13_Witness ==
    /\ pc = "raised"
    /\ err = "KeyError"
    /\ Len(all_detections) = 2
    /\ Len(matrices) = 1
    /\ Len(results_file.lines) = 2

-----------------------------------------------------------------------------
(* The confusion matrices of a run and the filters of the scoring, checked *)
(* under SpecRunMixed.                                                     *)

\* the match keys of the rows of a file
KeysOf(file) == {MatchKey(file[i]) : i \in 1..Len(file)}

\* the matrix as a function of the raw rows of the two files and of nothing
\* else: cell [a][b] counts the keys whose last pose row is a + 1 on one side
\* and b + 1 on the other, once for each of the two orientations
RawMatrix(gt, det) ==
    [ij \in (0..9) \X (0..9) |->
        Cardinality({k \in KeysOf(gt) : /\ LastPoseRow(gt, k) = {ij[1] + 1}
                                        /\ LastPoseRow(det, k) = {ij[2] + 1}})
      + Cardinality({k \in KeysOf(gt) : /\ LastPoseRow(gt, k) = {ij[2] + 1}
                                        /\ LastPoseRow(det, k) = {ij[1] + 1}})]

\* C14: every matrix confusion_matrix returned to the run is the matrix of
\* the raw rows of its pair of files, whatever the exclusions file and the
\* label map of the run are; a matched pair of pose rows is tallied (once
\* for each orientation) also when its frame is excluded from the scoring
\* or its class is not in the whitelist.
C14_MatrixOfRawRows ==
    \A j \in 1..Len(matrices) :
        LET gt == all_gndtruths[matrices[j].i]
            det == all_detections[matrices[j].i]
        IN  /\ matrices[j].cm = RawMatrix(gt, det)
            /\ \A k \in KeysOf(gt) \cap KeysOf(det) :
                  \A a \in LastPoseRow(gt, k) \cap (1..10),
                     b \in LastPoseRow(det, k) \cap (1..10) :
                      matrices[j].cm[<<a - 1, b - 1>>] >= 1

\* a run with frame v1/5 excluded and the pose class off the whitelist came
\* to its end: nothing was registered with the evaluator, and the matched
\* pose pair of the frame is in the matrix
C14_Witness ==
    /\ pc = "returned_run"
    /\ make_image_key(PoseRow[1], PoseRow[2]) \in excluded
    /\ PoseRow[7] \notin class_ids
    /\ Len(matrices) = 1
    /\ all_gndtruths[1] = <<PoseRow>> /\ all_detections[1] = <<PoseRow>>
    /\ evaluations[1] = NewEvaluator
    /\ matrices[1].cm = [Zeros EXCEPT ![<<1, 1>>] = 2]

====
